---- MODULE Spec2Model ----
(***************************************************************************)
(* A model of folder_scanner.py: the size parser, the size formatter, the  *)
(* directory scanner, the report builder and the command-line driver.      *)
(*                                                                         *)
(* Strings are tuples of one-character strings.  An optional value is the  *)
(* empty tuple (None) or a one-element tuple (the value).  A number is a   *)
(* record [neg, mant, scale, exp] standing for                             *)
(*        (-1)^neg * (mant / scale) * 1024^exp                             *)
(* so that products with 1024^4 and quotients by 1024 stay exact.          *)
(***************************************************************************)
EXTENDS Integers, Sequences, FiniteSets, TLC

VARIABLES
    size_str,     \* parse_size: the argument
    parseOut,     \* parse_size: None, or how the call ended
    size_bytes,   \* format_size: the argument
    fmtOut,       \* format_size: None, or how the call ended
    entries,      \* scan_folder: what os.scandir enumerates, in order
    filter_exts,  \* scan_folder: None or a set of extensions
    min_size,     \* scan_folder: None or a number
    max_size,     \* scan_folder: None or a number
    idx,          \* scan_folder: number of entries the loop has consumed
    file_sizes,   \* scan_folder: the (name, size) pairs collected so far
    extensions,   \* scan_folder: the Counter, as (ext, count) pairs in insertion order
    scanPc,       \* scan_folder: "idle", "run", "returned", "raised"
    report,       \* build_report: None or the report built
    args,         \* main: the parsed command line
    pc,           \* main: the position of the driver
    stdout,       \* main: what was printed to standard output, in order
    stderr,       \* every print(..., file=sys.stderr), in order
    exitCode,     \* main: None or the process exit status
    outFile       \* main: None or the text written to args.output

vars == <<size_str, parseOut, size_bytes, fmtOut, entries, filter_exts, min_size,
          max_size, idx, file_sizes, extensions, scanPc, report, args, pc, stdout,
          stderr, exitCode, outFile>>

parseVars  == <<size_str, parseOut>>
fmtVars    == <<size_bytes, fmtOut>>
scanVars   == <<entries, filter_exts, min_size, max_size, idx, file_sizes, extensions, scanPc>>
mainVars   == <<args, pc, stdout, exitCode, outFile>>

None == <<>>
Some(x) == <<x>>
Get(o) == o[1]

----------------------------------------------------------------------------
(* Bounds of the model *)

MaxLen == 4        \* longest size string given to parse_size
MaxExp == 6        \* format_size inputs go up to mant * 1024^MaxExp
MaxEntries == 3    \* most entries in the scanned directory
MaxRecords == 3    \* longest records list given to build_report alone

----------------------------------------------------------------------------
(* Numbers *)

Base == 1024

Num(n) == [neg |-> FALSE, mant |-> n, scale |-> 1, exp |-> 0]

IsNegative(v) == v.neg /\ v.mant > 0

\* sign of x * Base^e - y, for naturals x, y and any integer e
RECURSIVE CmpScaled(_, _, _)
CmpScaled(x, e, y) ==
    IF e = 0 THEN (IF x < y THEN -1 ELSE IF x > y THEN 1 ELSE 0)
    ELSE IF e > 0
         THEN LET c == CmpScaled(x, e - 1, y \div Base)
              IN  IF c # 0 THEN c ELSE IF y % Base > 0 THEN -1 ELSE 0
         ELSE 0 - CmpScaled(y, 0 - e, x)

\* sign of v - n, for a number v and a natural n
Cmp(v, n) ==
    IF v.mant = 0 THEN (IF n = 0 THEN 0 ELSE -1)
    ELSE IF v.neg THEN -1
    ELSE CmpScaled(v.mant, v.exp, n * v.scale)

\* v * Base^k: the product with a unit multiplier
Times(v, k) == [v EXCEPT !.exp = v.exp + k]

----------------------------------------------------------------------------
(* Strings *)

LowerLetters == <<"a","b","c","d","e","f","g","h","i","j","k","l","m",
                  "n","o","p","q","r","s","t","u","v","w","x","y","z">>
UpperLetters == <<"A","B","C","D","E","F","G","H","I","J","K","L","M",
                  "N","O","P","Q","R","S","T","U","V","W","X","Y","Z">>

UpperChar(c) ==
    IF \E i \in DOMAIN LowerLetters : LowerLetters[i] = c
    THEN UpperLetters[CHOOSE i \in DOMAIN LowerLetters : LowerLetters[i] = c]
    ELSE c

LowerChar(c) ==
    IF \E i \in DOMAIN UpperLetters : UpperLetters[i] = c
    THEN LowerLetters[CHOOSE i \in DOMAIN UpperLetters : UpperLetters[i] = c]
    ELSE c

Upper(s) == [i \in DOMAIN s |-> UpperChar(s[i])]
Lower(s) == [i \in DOMAIN s |-> LowerChar(s[i])]

Whitespace == {" "}

RECURSIVE LStrip(_)
LStrip(s) == IF s # <<>> /\ Head(s) \in Whitespace THEN LStrip(Tail(s)) ELSE s

RECURSIVE RStrip(_)
RStrip(s) ==
    IF s # <<>> /\ s[Len(s)] \in Whitespace THEN RStrip(SubSeq(s, 1, Len(s) - 1)) ELSE s

Strip(s) == RStrip(LStrip(s))

EndsWith(s, suffix) ==
    /\ Len(s) >= Len(suffix)
    /\ SubSeq(s, Len(s) - Len(suffix) + 1, Len(s)) = suffix

Digits == <<"0","1","2","3","4","5","6","7","8","9">>

IsDigit(c) == \E i \in DOMAIN Digits : Digits[i] = c

DigitVal(c) == (CHOOSE i \in DOMAIN Digits : Digits[i] = c) - 1

\* the natural number a string of decimal digits writes
RECURSIVE DecimalValue(_)
DecimalValue(ds) ==
    IF ds = <<>> THEN 0
    ELSE 10 * DecimalValue(SubSeq(ds, 1, Len(ds) - 1)) + DigitVal(ds[Len(ds)])

RECURSIVE Pow10(_)
Pow10(n) == IF n = 0 THEN 1 ELSE 10 * Pow10(n - 1)

\* float(s) on strings of signs, digits, "." and whitespace: None stands for
\* ValueError.  (Exponents, "inf", "nan" and "_" need characters that the strings
\* of this model do not contain.)
float(s) ==
    LET t      == Strip(s)
        signed == t # <<>> /\ Head(t) \in {"-", "+"}
        body   == IF signed THEN Tail(t) ELSE t
        dots   == {i \in DOMAIN body : body[i] = "."}
        digs   == SelectSeq(body, IsDigit)
        point  == IF dots = {} THEN Len(body) ELSE CHOOSE i \in dots : TRUE
    IN  IF /\ Cardinality(dots) <= 1
           /\ digs # <<>>
           /\ \A i \in DOMAIN body : IsDigit(body[i]) \/ body[i] = "."
        THEN Some([neg   |-> signed /\ Head(t) = "-",
                   mant  |-> DecimalValue(digs),
                   scale |-> Pow10(Len(body) - point),
                   exp   |-> 0])
        ELSE None

----------------------------------------------------------------------------
(* parse_size *)

\* the dict of line 14, in insertion order; the multiplier is Base^exp
units == << [suffix |-> <<"B">>,      exp |-> 0],
            [suffix |-> <<"K", "B">>, exp |-> 1],
            [suffix |-> <<"M", "B">>, exp |-> 2],
            [suffix |-> <<"G", "B">>, exp |-> 3],
            [suffix |-> <<"T", "B">>, exp |-> 4] >>

\* sorted(units.items(), key=lambda x: -len(x[0])): a stable sort, longest first
RECURSIVE ByLengthFrom(_, _)
ByLengthFrom(us, n) ==
    IF n = 0 THEN <<>>
    ELSE SelectSeq(us, LAMBDA u : Len(u.suffix) = n) \o ByLengthFrom(us, n - 1)

UnsortedUnits == units

SortedUnits == ByLengthFrom(units, 2)

\* the loop of lines 15-21 from the i-th unit on: the value returned, or None
\* when the loop ends or breaks
RECURSIVE SuffixLoop(_, _)
SuffixLoop(str, i) ==
    IF i > Len(SortedUnits) THEN None
    ELSE LET u == SortedUnits[i]
         IN  IF EndsWith(str, u.suffix)
             THEN LET number == Strip(SubSeq(str, 1, Len(str) - Len(u.suffix)))
                      f      == float(number)
                  IN  IF f # None THEN Some(Times(Get(f), u.exp)) ELSE None
             ELSE SuffixLoop(str, i + 1)

Returned(v) == [kind |-> "return", value |-> Some(v), printed |-> None, code |-> 0]

\* print(..., file=sys.stderr) of the message, then sys.exit(code)
Exited(msg, c) == [kind |-> "exit", value |-> None, printed |-> Some(msg), code |-> c]

InvalidSizeMessage(str) == [text |-> "Error: Invalid size format", arg |-> str]

parse_size_returns_zero(s) ==
    LET str == Upper(Strip(s))
        r   == SuffixLoop(str, 1)
        f   == float(str)
    IN  IF r # None THEN Returned(Get(r))
        ELSE IF f # None THEN Returned(Get(f))
        ELSE Returned(Num(0))

parse_size(s) ==
    LET str == Upper(Strip(s))
        r   == SuffixLoop(str, 1)
        f   == float(str)
    IN  IF r # None THEN Returned(Get(r))
        ELSE IF f # None THEN Returned(Get(f))
        ELSE Exited(InvalidSizeMessage(str), 1)

Alphabet == {" ", "0", "1", "-", ".", "k", "b", "B", "M", "x"}

Strings == UNION {[1..n -> Alphabet] : n \in 0..MaxLen}

\* one call parse_size(size_str)
ParseSize ==
    /\ size_str # None
    /\ parseOut = None
    /\ LET out == parse_size(Get(size_str))
       IN  /\ parseOut' = Some(out)
           /\ stderr' = stderr \o out.printed
    /\ UNCHANGED <<size_str, fmtVars, scanVars, report, mainVars>>

----------------------------------------------------------------------------
(* format_size *)

LessThan(v, n) == Cmp(v, n) < 0

\* size_bytes /= 1024
Div1024(v) == [v EXCEPT !.exp = v.exp - 1]

\* the tuple of line 52
FmtUnits == <<"B", "KiB", "MiB", "GiB", "TiB">>

\* f"{size_bytes:.2f} {unit}": the number rendered and its unit
Formatted(v, unit) == [value |-> v, unit |-> unit]

StopsAtUnitInclusive(v) == Cmp(v, Base) <= 0

\* if size_bytes < 1024
StopsAtUnit(v) == LessThan(v, Base)

\* the loop of lines 52-55 from the i-th unit on, then line 56
RECURSIVE FormatLoop(_, _)
FormatLoop(v, i) ==
    IF i > Len(FmtUnits) THEN Formatted(v, "PiB")
    ELSE IF StopsAtUnit(v) THEN Formatted(v, FmtUnits[i])
    ELSE FormatLoop(Div1024(v), i + 1)

format_size(b) == Returned(FormatLoop(b, 1))

FmtMants == {0, 1, 1023, 1024, 5000000}

FmtInputs ==
    {[neg |-> n, mant |-> m, scale |-> 1, exp |-> e] :
        n \in BOOLEAN, m \in FmtMants, e \in 0..MaxExp}

\* one call format_size(size_bytes)
FormatSize ==
    /\ size_bytes # None
    /\ fmtOut = None
    /\ fmtOut' = Some(format_size(Get(size_bytes)))
    /\ UNCHANGED <<size_bytes, parseVars, scanVars, report, mainVars, stderr>>

----------------------------------------------------------------------------
(* Specifications of the two pure functions *)

InitParse ==
    /\ size_str \in {Some(s) : s \in Strings}
    /\ parseOut = None
    /\ size_bytes = None /\ fmtOut = None
    /\ entries = <<>> /\ filter_exts = None /\ min_size = None /\ max_size = None
    /\ idx = 0 /\ file_sizes = <<>> /\ extensions = <<>> /\ scanPc = "idle"
    /\ report = None
    /\ args = None /\ pc = "idle" /\ stdout = <<>> /\ stderr = <<>>
    /\ exitCode = None /\ outFile = None

SpecParse == InitParse /\ [][ParseSize]_vars

InitFormat ==
    /\ size_bytes \in {Some(b) : b \in FmtInputs}
    /\ fmtOut = None
    /\ size_str = None /\ parseOut = None
    /\ entries = <<>> /\ filter_exts = None /\ min_size = None /\ max_size = None
    /\ idx = 0 /\ file_sizes = <<>> /\ extensions = <<>> /\ scanPc = "idle"
    /\ report = None
    /\ args = None /\ pc = "idle" /\ stdout = <<>> /\ stderr = <<>>
    /\ exitCode = None /\ outFile = None

SpecFormat == InitFormat /\ [][FormatSize]_vars

----------------------------------------------------------------------------
(* Claims about parse_size, under SpecParse *)

ParseDone == size_str # None /\ parseOut # None

Range(f) == {f[i] : i \in DOMAIN f}

\* an unsigned decimal literal: digits with at most one ".", at least one digit
IsLiteral(lit) ==
    /\ \A i \in DOMAIN lit : IsDigit(lit[i]) \/ lit[i] = "."
    /\ Cardinality({i \in DOMAIN lit : lit[i] = "."}) <= 1
    /\ \E i \in DOMAIN lit : IsDigit(lit[i])

\* the number an unsigned decimal literal writes, times 1024^k
LiteralTimes(lit, k) ==
    LET after == IF \E i \in DOMAIN lit : lit[i] = "."
                 THEN Len(lit) - (CHOOSE i \in DOMAIN lit : lit[i] = ".")
                 ELSE 0
    IN  [neg |-> FALSE, mant |-> DecimalValue(SelectSeq(lit, IsDigit)),
         scale |-> Pow10(after), exp |-> k]

\* B=1, KB=1024, MB=1024^2, GB=1024^3, TB=1024^4, as powers of 1024
BinaryPower(suffix) ==
    CASE suffix = <<"B">> -> 0
      [] suffix = <<"K", "B">> -> 1
      [] suffix = <<"M", "B">> -> 2
      [] suffix = <<"G", "B">> -> 3
      [] suffix = <<"T", "B">> -> 4

KnownSuffixes == {<<"B">>, <<"K", "B">>, <<"M", "B">>, <<"G", "B">>, <<"T", "B">>}

MatchingSuffixes(str) == {x \in KnownSuffixes : EndsWith(str, x)}

LongestSuffix(str) ==
    CHOOSE x \in MatchingSuffixes(str) : \A y \in MatchingSuffixes(str) : Len(y) <= Len(x)

BeforeSuffix(str, x) == SubSeq(str, 1, Len(str) - Len(x))

\* neither a suffixed parse (with any known suffix) nor the bare parse succeeds
NeitherParses(s) ==
    LET str == Upper(Strip(s))
    IN  /\ float(str) = None
        /\ \A x \in MatchingSuffixes(str) : float(BeforeSuffix(str, x)) = None

\* C6, as stated: when neither the suffixed nor the bare parse succeeds, parse_size
\* signals an InvalidSizeFormat error carrying the original string to its caller,
\* prints nothing and does not end the process.
C6_SignalsToCaller ==
    (ParseDone /\ NeitherParses(Get(size_str))) =>
        /\ Get(parseOut).kind = "raise"
        /\ Get(parseOut).printed = None
        /\ stderr = <<>>

\* C6, amended: when neither the suffixed nor the bare parse succeeds, parse_size
\* itself prints the invalid-size message, carrying the stripped and upper-cased
\* input, to standard error and ends the process with exit status 1; it returns
\* nothing to its caller.  It does so in no other case.
C6_PrintsAndExits ==
    ParseDone =>
        LET out == Get(parseOut)
            msg == [text |-> "Error: Invalid size format",
                    arg  |-> Upper(Strip(Get(size_str)))]
        IN  IF NeitherParses(Get(size_str))
            THEN /\ out.kind = "exit"
                 /\ out.code = 1
                 /\ out.value = None
                 /\ out.printed = Some(msg)
                 /\ stderr = <<msg>>
            ELSE /\ out.kind = "return"
                 /\ stderr = <<>>

\* an unparsable string with lower-case letters and surrounding whitespace was given
C6_Witness ==
    /\ ParseDone
    /\ NeitherParses(Get(size_str))
    /\ Get(size_str) # Upper(Strip(Get(size_str)))
    /\ Get(parseOut).kind = "exit"

\* C7: a string of optional surrounding whitespace, an unsigned decimal literal and
\* a unit suffix in any case gives the literal times the binary multiplier of the
\* longest matching suffix; a bare literal with no known suffix gives the literal.
C7_LongestSuffixWins ==
    ParseDone =>
        LET str == Upper(Strip(Get(size_str)))
            out == Get(parseOut)
        IN  IF MatchingSuffixes(str) # {}
            THEN LET x == LongestSuffix(str)
                 IN  IsLiteral(BeforeSuffix(str, x)) =>
                        out = Returned(LiteralTimes(BeforeSuffix(str, x), BinaryPower(x)))
            ELSE IsLiteral(str) => out = Returned(LiteralTimes(str, 0))

\* a mixed-case two-letter unit after a literal was parsed with its own multiplier
C7_Witness ==
    /\ ParseDone
    /\ Get(size_str) # Upper(Get(size_str))
    /\ MatchingSuffixes(Upper(Strip(Get(size_str)))) # {}
    /\ Len(LongestSuffix(Upper(Strip(Get(size_str))))) = 2
    /\ Get(parseOut).kind = "return"
    /\ Get(Get(parseOut).value).exp >= 1

----------------------------------------------------------------------------
(* Claims about format_size, under SpecFormat *)

FmtDone == size_bytes # None /\ fmtOut # None

\* for a natural m below 2^31: the k with 1024^k <= m < 1024^(k+1), 0 for m = 0
Log1024(m) ==
    IF m < Base THEN 0
    ELSE IF m < Base * Base THEN 1
    ELSE IF m < Base * Base * Base THEN 2
    ELSE 3

\* for a non-negative whole input: the k with 1024^k <= v < 1024^(k+1), 0 for v = 0
Magnitude(v) == IF v.mant = 0 THEN 0 ELSE v.exp + Log1024(v.mant)

Min(a, b) == IF a < b THEN a ELSE b

\* the unit the input is labelled with when the units are `labels`, of which the
\* last is the fallback: the remaining value is the input divided by 1024 once per
\* unit passed, and it is below 1024 unless the input outgrows the last unit
LabelledAlong(labels) ==
    (FmtDone /\ ~Get(size_bytes).neg) =>
        LET v   == Get(size_bytes)
            k   == Min(Magnitude(v), Len(labels) - 1)
            out == Get(fmtOut)
        IN  /\ out.kind = "return"
            /\ Get(out.value).unit = labels[k + 1]
            /\ Get(out.value).value = [v EXCEPT !.exp = v.exp - k]
            /\ (Magnitude(v) < Len(labels)) <=> (Cmp(Get(out.value).value, 1023) <= 0)

\* C4, as stated: the units run B, KiB, MiB, GiB, TiB, PiB, EiB; a value in
\* [1024^5, 1024^6) is labelled PiB and a value of 1024^6 or more is labelled EiB.
C4_UnitsUpToEiB ==
    LabelledAlong(<<"B", "KiB", "MiB", "GiB", "TiB", "PiB", "EiB">>)

\* C4, amended: the units run B, KiB, MiB, GiB, TiB, PiB, and PiB is the fallback:
\* a value in [1024^5, 1024^6) is labelled PiB with a remaining value below 1024,
\* and a value of 1024^6 or more is labelled PiB too, with a remaining value of
\* 1024 or more.
C4_UnitsUpToPiB ==
    LabelledAlong(<<"B", "KiB", "MiB", "GiB", "TiB", "PiB">>)

\* a value of 1024^6 or more was formatted
C4_Witness ==
    /\ FmtDone
    /\ ~Get(size_bytes).neg
    /\ Magnitude(Get(size_bytes)) >= 6
    /\ Get(Get(fmtOut).value).unit = "PiB"

\* C5: for a negative byte count format_size signals InvalidInput and returns no
\* formatted string.
C5_NegativeRejected ==
    (FmtDone /\ IsNegative(Get(size_bytes))) => Get(fmtOut).kind = "raise"

----------------------------------------------------------------------------
(* scan_folder *)

\* entry.is_file(follow_symlinks=False): a regular file, not a link to one
is_file(e) == e.kind = "file"

\* os.path.splitext(name)[1] for a name without separators: leading dots are
\* skipped, and the extension starts at the last dot if a character that is not
\* a dot comes before it
RECURSIVE LastDot(_, _)
LastDot(name, i) ==
    IF i = 0 THEN 0 ELSE IF name[i] = "." THEN i ELSE LastDot(name, i - 1)

splitext_ext(name) ==
    LET dotIndex == LastDot(name, Len(name))
    IN  IF dotIndex > 0 /\ \E j \in 1..(dotIndex - 1) : name[j] # "."
        THEN SubSeq(name, dotIndex, Len(name))
        ELSE <<>>

NoExtension == <<"(no extension)">>

\* os.path.splitext(entry.name)[1].lower() or "(no extension)"
Extension(name) ==
    IF Lower(splitext_ext(name)) # <<>> THEN Lower(splitext_ext(name)) ELSE NoExtension

\* the truth value of filter_exts: None and the empty set are both false
Truthy(f) == f # None /\ Get(f) # {}

\* line 37 does not skip the entry
PassesExt(ext, f) == ~(Truthy(f) /\ ext \notin Get(f))

PassesSizeExclusive(size, lo, hi) ==
    /\ ~(lo # None /\ Cmp(Get(lo), size) >= 0)
    /\ ~(hi # None /\ Cmp(Get(hi), size) <= 0)

\* lines 40-43 do not skip the entry: not size < min_size, not size > max_size
PassesSize(size, lo, hi) ==
    /\ ~(lo # None /\ Cmp(Get(lo), size) > 0)
    /\ ~(hi # None /\ Cmp(Get(hi), size) < 0)

HasKey(tally, ext) == \E i \in DOMAIN tally : tally[i].ext = ext

IncrementResets(tally, ext) ==
    IF HasKey(tally, ext)
    THEN [i \in DOMAIN tally |->
            IF tally[i].ext = ext THEN [tally[i] EXCEPT !.count = 1] ELSE tally[i]]
    ELSE Append(tally, [ext |-> ext, count |-> 1])

\* extensions[ext] += 1 on a Counter: a missing key counts from 0 and is
\* inserted at the end
Increment(tally, ext) ==
    IF HasKey(tally, ext)
    THEN [i \in DOMAIN tally |->
            IF tally[i].ext = ext THEN [tally[i] EXCEPT !.count = @ + 1] ELSE tally[i]]
    ELSE Append(tally, [ext |-> ext, count |-> 1])

\* one iteration of the loop of line 34 in which entry.stat() succeeds or is
\* not reached
ScanEntry ==
    /\ scanPc = "run"
    /\ idx < Len(entries)
    /\ idx' = idx + 1
    /\ LET entry == entries[idx + 1]
           ext   == Extension(entry.name)
       IN  IF /\ is_file(entry)
              /\ PassesExt(ext, filter_exts)
              /\ PassesSize(entry.size, min_size, max_size)
           THEN /\ file_sizes' = Append(file_sizes, <<entry.name, entry.size>>)
                /\ extensions' = Increment(extensions, ext)
           ELSE UNCHANGED <<file_sizes, extensions>>
    /\ UNCHANGED <<entries, filter_exts, min_size, max_size, scanPc>>
    /\ UNCHANGED <<parseVars, fmtVars, report, mainVars, stderr>>

\* the iteration in which entry.stat() raises OSError (the file is gone since
\* it was enumerated): nothing catches it, so it leaves scan_folder
ScanStatFails ==
    /\ scanPc = "run"
    /\ idx < Len(entries)
    /\ is_file(entries[idx + 1])
    /\ PassesExt(Extension(entries[idx + 1].name), filter_exts)
    /\ scanPc' = "raised"
    /\ UNCHANGED <<entries, filter_exts, min_size, max_size, idx, file_sizes, extensions>>
    /\ UNCHANGED <<parseVars, fmtVars, report, mainVars, stderr>>

\* return file_sizes, extensions
ScanReturn ==
    /\ scanPc = "run"
    /\ idx = Len(entries)
    /\ scanPc' = "returned"
    /\ UNCHANGED <<entries, filter_exts, min_size, max_size, idx, file_sizes, extensions>>
    /\ UNCHANGED <<parseVars, fmtVars, report, mainVars, stderr>>

\* what a directory may hold: regular files, a directory, a symbolic link
Pool ==
    { [name |-> <<"a", ".", "t">>, kind |-> "file",    size |-> 100],
      [name |-> <<"b", ".", "m">>, kind |-> "file",    size |-> 2000],
      [name |-> <<"C", ".", "T">>, kind |-> "file",    size |-> 500],
      [name |-> <<"l", ".", "t">>, kind |-> "symlink", size |-> 100],
      [name |-> <<"d", ".", "t">>, kind |-> "dir",     size |-> 0],
      [name |-> <<".", "r", "c">>, kind |-> "file",    size |-> 0] }

\* the enumerations of a directory of at most MaxEntries entries
Dirs ==
    {d \in UNION {[1..n -> Pool] : n \in 0..MaxEntries} :
        \A i, j \in DOMAIN d : i # j => d[i] # d[j]}

\* the size strings of the model, and the numbers parse_size makes of them
SizeArgs ==
    { <<"0">>, <<"5", "0", "0">>, <<"1", "k", "b">>, <<"1", ".", "5", "K", "B">>,
      <<"-", "1">>, <<"x">> }

Thresholds ==
    {None} \cup {parse_size(a).value : a \in {b \in SizeArgs : parse_size(b).kind = "return"}}

ExtFilters ==
    { None, Some({}), Some({<<".", "t">>}), Some({<<".", "m">>, NoExtension}),
      Some({<<".", "T">>}) }

InitScan ==
    /\ entries \in Dirs
    /\ filter_exts \in ExtFilters
    /\ min_size \in Thresholds
    /\ max_size \in Thresholds
    /\ idx = 0 /\ file_sizes = <<>> /\ extensions = <<>> /\ scanPc = "run"
    /\ size_str = None /\ parseOut = None
    /\ size_bytes = None /\ fmtOut = None
    /\ report = None
    /\ args = None /\ pc = "idle" /\ stdout = <<>> /\ stderr = <<>>
    /\ exitCode = None /\ outFile = None

NextScan == ScanEntry \/ ScanStatFails \/ ScanReturn

SpecScan == InitScan /\ [][NextScan]_vars

----------------------------------------------------------------------------
(* Claims about scan_folder, under SpecScan *)

Scanning == scanPc \in {"run", "returned"}

\* the normalized extension of section 3: the part of the name from its last dot
\* on, lower-cased, or the sentinel when no dot follows a character that is not one
NormalizedExt(name) ==
    LET dots == {i \in DOMAIN name : name[i] = "." /\ \E j \in 1..(i - 1) : name[j] # "."}
        last == CHOOSE i \in dots : \A j \in dots : j <= i
    IN  IF dots = {} THEN NoExtension
        ELSE [i \in 1..(Len(name) - last + 1) |-> LowerChar(name[last + i - 1])]

AtLeast(size, bound) == Cmp(bound, size) <= 0
AtMost(size, bound)  == Cmp(bound, size) >= 0

WithinSizes(e) ==
    /\ min_size # None => AtLeast(e.size, Get(min_size))
    /\ max_size # None => AtMost(e.size, Get(max_size))

\* an entry the claim lets through when a present allowedExtensions always applies
QualifiesPresent(e) ==
    /\ e.kind = "file"
    /\ filter_exts # None => NormalizedExt(e.name) \in Get(filter_exts)
    /\ WithinSizes(e)

\* an entry the code lets through: an empty allowedExtensions is as good as absent
QualifiesNonEmpty(e) ==
    /\ e.kind = "file"
    /\ (filter_exts # None /\ Get(filter_exts) # {}) =>
            NormalizedExt(e.name) \in Get(filter_exts)
    /\ WithinSizes(e)

NameAndSize(es) == [i \in DOMAIN es |-> <<es[i].name, es[i].size>>]

Seen == SubSeq(entries, 1, idx)

RECURSIVE TallySum(_)
TallySum(tally) == IF tally = <<>> THEN 0 ELSE Head(tally).count + TallySum(Tail(tally))

TallyMatchesRecords ==
    /\ TallySum(extensions) = Len(file_sizes)
    /\ \A i \in DOMAIN extensions :
        /\ extensions[i].count >= 1
        /\ extensions[i].count =
             Cardinality({j \in DOMAIN file_sizes :
                             NormalizedExt(file_sizes[j][1]) = extensions[i].ext})
        /\ \A j \in DOMAIN extensions : extensions[j].ext = extensions[i].ext => j = i

\* the step consumes a regular file that the extension or the size filter rejects
SkipsFiltered ==
    /\ scanPc = "run"
    /\ idx' = idx + 1
    /\ entries[idx'].kind = "file"
    /\ ~QualifiesNonEmpty(entries[idx'])

\* C2: at every point of a scan and in its result the tally counts add up to the
\* number of records, every key counts at least 1 (and counts the records of its
\* extension), and a step that skips an entry by the extension or the size filter
\* changes neither the records nor the tally.
C2_TallySumIsRecordCount ==
    /\ [](Scanning => TallyMatchesRecords)
    /\ [][SkipsFiltered => (file_sizes' = file_sizes /\ extensions' = extensions)]_vars

\* a returned scan counted two records under one key, and skipped a regular file
C2_Witness ==
    /\ scanPc = "returned"
    /\ \E i \in DOMAIN extensions : extensions[i].count >= 2
    /\ \E i \in DOMAIN entries : entries[i].kind = "file" /\ ~QualifiesNonEmpty(entries[i])

\* C3: a failing read of one entry's size does not abort the scan: no exception
\* leaves scan_folder.
C3_StatFailureDoesNotAbort == scanPc # "raised"

----------------------------------------------------------------------------
(* build_report *)

RECURSIVE SumSizes(_)
SumSizes(fs) == IF fs = <<>> THEN 0 ELSE Head(fs)[2] + SumSizes(Tail(fs))

\* max(items, key=lambda x: x[1]) with `best` the maximum so far: a later item
\* replaces it only when its key is greater
RECURSIVE MaxLastFrom(_, _)
MaxLastFrom(best, rest) ==
    IF rest = <<>> THEN best
    ELSE MaxLastFrom(IF Head(rest)[2] >= best[2] THEN Head(rest) ELSE best, Tail(rest))

RECURSIVE MaxFrom(_, _)
MaxFrom(best, rest) ==
    IF rest = <<>> THEN best
    ELSE MaxFrom(IF Head(rest)[2] > best[2] THEN Head(rest) ELSE best, Tail(rest))

LargestLast(fs) == IF fs # <<>> THEN MaxLastFrom(Head(fs), Tail(fs)) ELSE <<"N/A", 0>>

\* line 63
Largest(fs) == IF fs # <<>> THEN MaxFrom(Head(fs), Tail(fs)) ELSE <<"N/A", 0>>

\* lines 65-72: the parts joined by " and ", None for the text "None"
SizeFilter(lo, hi) ==
    IF lo # None \/ hi # None
    THEN Some((IF lo # None THEN <<[op |-> ">=", size |-> Get(format_size(Get(lo)).value)]>>
               ELSE <<>>)
              \o
              (IF hi # None THEN <<[op |-> "<=", size |-> Get(format_size(Get(hi)).value)]>>
               ELSE <<>>))
    ELSE None

\* Counter.most_common(): by descending count, equal counts in insertion order
RECURSIVE InsertByCount(_, _)
InsertByCount(sorted, x) ==
    IF sorted = <<>> THEN <<x>>
    ELSE IF Head(sorted).count >= x.count
         THEN <<Head(sorted)>> \o InsertByCount(Tail(sorted), x)
         ELSE <<x>> \o sorted

RECURSIVE most_common(_)
most_common(tally) ==
    IF tally = <<>> THEN <<>>
    ELSE InsertByCount(most_common(SubSeq(tally, 1, Len(tally) - 1)), tally[Len(tally)])

\* the lines of the report that depend on the arguments (the folder's path and
\* the date are left out)
build_report(fs, tally, exts, lo, hi) ==
    [ ext_filter    |-> IF Truthy(exts) THEN exts ELSE None,
      size_filter   |-> SizeFilter(lo, hi),
      total_files   |-> Len(fs),
      total_size    |-> SumSizes(fs),
      total_text    |-> Get(format_size(Num(SumSizes(fs))).value),
      largest_name  |-> Largest(fs)[1],
      largest_size  |-> Largest(fs)[2],
      largest_text  |-> Get(format_size(Num(Largest(fs)[2])).value),
      breakdown     |-> most_common(tally) ]

\* one call build_report(folder, file_sizes, extensions, filter_exts, min_size, max_size)
BuildReport ==
    /\ pc = "report_only"
    /\ report = None
    /\ report' = Some(build_report(file_sizes, extensions, filter_exts, min_size, max_size))
    /\ UNCHANGED <<parseVars, fmtVars, scanVars, mainVars, stderr>>

RecordNames == {<<"a", ".", "t">>, <<"b", ".", "m">>, <<"C", ".", "T">>, <<".", "r", "c">>}
RecordSizes == {0, 100, 2000}

\* the records lists of at most MaxRecords files of one directory
RecordLists ==
    {fs \in UNION {[1..n -> RecordNames \X RecordSizes] : n \in 0..MaxRecords} :
        \A i, j \in DOMAIN fs : i # j => fs[i][1] # fs[j][1]}

\* the tally scan_folder returns with these records
RECURSIVE TallyOf(_)
TallyOf(fs) ==
    IF fs = <<>> THEN <<>>
    ELSE Increment(TallyOf(SubSeq(fs, 1, Len(fs) - 1)), Extension(fs[Len(fs)][1]))

InitReport ==
    /\ file_sizes \in RecordLists
    /\ extensions = TallyOf(file_sizes)
    /\ filter_exts \in {None, Some({<<".", "t">>})}
    /\ min_size = None /\ max_size \in {None, Some(Num(2000))}
    /\ entries = <<>> /\ idx = 0 /\ scanPc = "idle"
    /\ report = None
    /\ pc = "report_only"
    /\ size_str = None /\ parseOut = None
    /\ size_bytes = None /\ fmtOut = None
    /\ args = None /\ stdout = <<>> /\ stderr = <<>>
    /\ exitCode = None /\ outFile = None

SpecReport == InitReport /\ [][BuildReport]_vars

----------------------------------------------------------------------------
(* Claims about build_report, under SpecReport *)

ReportDone == pc = "report_only" /\ report # None

\* the sum of the sizes of the first n records
RECURSIVE SizesUpTo(_, _)
SizesUpTo(fs, n) == IF n = 0 THEN 0 ELSE SizesUpTo(fs, n - 1) + fs[n][2]

\* C10: the largest file is the first record of maximum size, totalFiles is the
\* number of records and totalSize the sum of their sizes; with no records the
\* largest file is ("N/A", 0).
C10_LargestIsFirstMaximum ==
    ReportDone =>
        LET r == Get(report)
        IN  /\ r.total_files = Len(file_sizes)
            /\ r.total_size = SizesUpTo(file_sizes, Len(file_sizes))
            /\ IF file_sizes = <<>>
               THEN r.largest_name = "N/A" /\ r.largest_size = 0
               ELSE \E i \in DOMAIN file_sizes :
                      /\ r.largest_name = file_sizes[i][1]
                      /\ r.largest_size = file_sizes[i][2]
                      /\ \A j \in DOMAIN file_sizes : file_sizes[j][2] <= file_sizes[i][2]
                      /\ \A j \in 1..(i - 1) : file_sizes[j][2] < file_sizes[i][2]

\* a report was built from records in which the maximum size occurs twice, after
\* a smaller record
C10_Witness ==
    /\ ReportDone
    /\ \E i, j \in DOMAIN file_sizes :
        /\ 1 < i /\ i < j
        /\ file_sizes[i][2] = file_sizes[j][2]
        /\ file_sizes[1][2] < file_sizes[i][2]
        /\ Get(report).largest_name = file_sizes[i][1]

----------------------------------------------------------------------------
(* main *)

\* what main prints: a fixed text, and the report where the text is one
NotDirMessage   == [text |-> "Error: not a valid directory", arg |-> <<>>]
Traceback       == [text |-> "Traceback (most recent call last)", arg |-> <<>>]
NoFilesLine     == [text |-> "No files found", body |-> None]
SavedLine       == [text |-> "Report saved to", body |-> None]
ReportLine(r)   == [text |-> "report", body |-> Some(r)]

\* f.write(report + "\n")
ReportFile(r)   == [text |-> r, newline |-> TRUE]

\* e if e.startswith(".") else f".{e}"
DotPrefixed(e) == IF e # <<>> /\ Head(e) = "." THEN e ELSE <<".">> \o e

\* lines 109-111
FilterExts(ext) ==
    IF ext # None /\ Get(ext) # <<>>
    THEN Some({DotPrefixed(Get(ext)[i]) : i \in DOMAIN Get(ext)})
    ELSE None

\* lines 105-111: the directory check, then the extension filter
MainCheckDir ==
    /\ pc = "start"
    /\ IF ~Get(args).is_dir
       THEN /\ stderr' = Append(stderr, NotDirMessage)
            /\ exitCode' = Some(1)
            /\ pc' = "done"
            /\ UNCHANGED filter_exts
       ELSE /\ filter_exts' = FilterExts(Get(args).ext)
            /\ pc' = "parse_min"
            /\ UNCHANGED <<stderr, exitCode>>
    /\ UNCHANGED <<args, stdout, outFile, report, parseVars, fmtVars>>
    /\ UNCHANGED <<entries, min_size, max_size, idx, file_sizes, extensions, scanPc>>

\* parse_size(a) if a else None, as main sees it: the value (None for an absent or
\* empty argument), or the exit of the process
ParsedArg(a) ==
    IF a # None /\ Get(a) # <<>>
    THEN parse_size(Get(a))
    ELSE [kind |-> "return", value |-> None, printed |-> None, code |-> 0]

\* line 113
MainParseMin ==
    /\ pc = "parse_min"
    /\ LET out == ParsedArg(Get(args).min_size)
       IN  IF out.kind = "exit"
           THEN /\ stderr' = stderr \o out.printed
                /\ exitCode' = Some(out.code)
                /\ pc' = "done"
                /\ UNCHANGED min_size
           ELSE /\ min_size' = out.value
                /\ pc' = "parse_max"
                /\ UNCHANGED <<stderr, exitCode>>
    /\ UNCHANGED <<args, stdout, outFile, report, parseVars, fmtVars>>
    /\ UNCHANGED <<entries, filter_exts, max_size, idx, file_sizes, extensions, scanPc>>

\* line 114
MainParseMax ==
    /\ pc = "parse_max"
    /\ LET out == ParsedArg(Get(args).max_size)
       IN  IF out.kind = "exit"
           THEN /\ stderr' = stderr \o out.printed
                /\ exitCode' = Some(out.code)
                /\ pc' = "done"
                /\ UNCHANGED max_size
           ELSE /\ max_size' = out.value
                /\ pc' = "call_scan"
                /\ UNCHANGED <<stderr, exitCode>>
    /\ UNCHANGED <<args, stdout, outFile, report, parseVars, fmtVars>>
    /\ UNCHANGED <<entries, filter_exts, min_size, idx, file_sizes, extensions, scanPc>>

\* line 116: the call of scan_folder, whose loop ScanEntry, ScanStatFails and
\* ScanReturn run
MainCallScan ==
    /\ pc = "call_scan"
    /\ scanPc' = "run"
    /\ pc' = "scan"
    /\ UNCHANGED <<args, stdout, stderr, exitCode, outFile, report, parseVars, fmtVars>>
    /\ UNCHANGED <<entries, filter_exts, min_size, max_size, idx, file_sizes, extensions>>

\* line 116 when scan_folder raised: nothing in main catches the exception, the
\* interpreter prints the traceback and exits with status 1
MainScanRaised ==
    /\ pc = "scan"
    /\ scanPc = "raised"
    /\ stderr' = Append(stderr, Traceback)
    /\ exitCode' = Some(1)
    /\ pc' = "done"
    /\ UNCHANGED <<args, stdout, outFile, report, parseVars, fmtVars, scanVars>>

MainAfterScanAlwaysBuilds ==
    /\ pc = "scan"
    /\ scanPc = "returned"
    /\ report' = Some(build_report(file_sizes, extensions, filter_exts, min_size, max_size))
    /\ pc' = "print"
    /\ UNCHANGED <<stdout, exitCode>>
    /\ UNCHANGED <<args, stderr, outFile, parseVars, fmtVars, scanVars>>

\* lines 118-122: the exit on an empty scan, else the call of build_report
MainAfterScan ==
    /\ pc = "scan"
    /\ scanPc = "returned"
    /\ IF file_sizes = <<>>
       THEN /\ stdout' = Append(stdout, NoFilesLine)
            /\ exitCode' = Some(0)
            /\ pc' = "done"
            /\ UNCHANGED report
       ELSE /\ report' = Some(build_report(file_sizes, extensions, filter_exts,
                                           min_size, max_size))
            /\ pc' = "print"
            /\ UNCHANGED <<stdout, exitCode>>
    /\ UNCHANGED <<args, stderr, outFile, parseVars, fmtVars, scanVars>>

\* line 124
MainPrintReport ==
    /\ pc = "print"
    /\ stdout' = Append(stdout, ReportLine(Get(report)))
    /\ pc' = "write"
    /\ UNCHANGED <<args, stderr, exitCode, outFile, report, parseVars, fmtVars, scanVars>>

\* lines 126-127: the report and a newline
MainWriteFile ==
    /\ pc = "write"
    /\ outFile' = Some(ReportFile(Get(report)))
    /\ pc' = "confirm"
    /\ UNCHANGED <<args, stdout, stderr, exitCode, report, parseVars, fmtVars, scanVars>>

\* line 129, and the end of main
MainConfirm ==
    /\ pc = "confirm"
    /\ stdout' = Append(stdout, SavedLine)
    /\ exitCode' = Some(0)
    /\ pc' = "done"
    /\ UNCHANGED <<args, stderr, outFile, report, parseVars, fmtVars, scanVars>>

ExtArgs == { None, Some(<< <<"t">> >>), Some(<< <<".", "m">>, <<"T">> >>) }
MinArgs == { None, Some(<<>>), Some(<<"5", "0", "0">>), Some(<<"-", "1">>), Some(<<"x">>) }
MaxArgs == { None, Some(<<"1", "k", "b">>), Some(<<" ", "-", "1", "K", "B">>), Some(<<"1", "x", "b">>) }

ArgSets ==
    [is_dir : BOOLEAN, ext : ExtArgs, min_size : MinArgs, max_size : MaxArgs]

Init ==
    /\ args \in {Some(a) : a \in ArgSets}
    /\ entries \in Dirs
    /\ ~Get(args).is_dir => entries = <<>>
    /\ pc = "start"
    /\ filter_exts = None /\ min_size = None /\ max_size = None
    /\ idx = 0 /\ file_sizes = <<>> /\ extensions = <<>> /\ scanPc = "idle"
    /\ report = None
    /\ stdout = <<>> /\ stderr = <<>> /\ exitCode = None /\ outFile = None
    /\ size_str = None /\ parseOut = None
    /\ size_bytes = None /\ fmtOut = None

Next ==
    \/ MainCheckDir
    \/ MainParseMin
    \/ MainParseMax
    \/ MainCallScan
    \/ ScanEntry
    \/ ScanStatFails
    \/ ScanReturn
    \/ MainScanRaised
    \/ MainAfterScan
    \/ MainPrintReport
    \/ MainWriteFile
    \/ MainConfirm

Spec == Init /\ [][Next]_vars

----------------------------------------------------------------------------
(* Claims about main, under Spec *)

NonNegativeOrAbsent(t) == t = None \/ ~IsNegative(Get(t))

\* C8: parse_size never returns a negative byte count, so the thresholds that
\* reach scan_folder and build_report are non-negative or absent.
C8_ThresholdsNonNegative ==
    (scanPc # "idle" \/ report # None) =>
        NonNegativeOrAbsent(min_size) /\ NonNegativeOrAbsent(max_size)

Given(a) == a # None /\ Get(a) # <<>>

ParseFails(a) == Given(a) /\ NeitherParses(Get(a))

NoReport == report = None /\ outFile = None /\ SavedLine \notin Range(stdout)

====
